---- MODULE Spec2Model ----
(***************************************************************************)
(* A model of the alert pipeline of finance_notifier: the market-hours     *)
(* gate (is_market_hours), one monitoring cycle (run_once) with its        *)
(* per-ticker loop, and the state file (load_state / save_state).          *)
(*                                                                         *)
(* Numbers.  Prices and percentages are Python floats in the program.      *)
(* Here they are integers, and every price pair the environment may hand   *)
(* out divides exactly, so that each quotient below is the real-number     *)
(* value of the program's expression (no rounding takes place).  The       *)
(* smallest positive price is 1, so "open < 1e-15" is "open < 1".          *)
(***************************************************************************)
EXTENDS Integers, Sequences, FiniteSets, TLC

VARIABLES
    tickers,            \* run_once argument: the list of ticker symbols
    threshold_pct,      \* run_once argument
    test_cfg,           \* run_once argument: enabled, bypass_market_hours, force_delta_pct
    market_hours_cfg,   \* run_once argument: enabled, tz_valid, start_hour, end_hour, days_mon_to_fri_only
    news_enabled,       \* news_cfg["enabled"]
    clock,              \* the wall clock in cfg.tz: weekday (0 = Monday), hour
    file,               \* the state file: kind missing, corrupt or json, and the mapping ticker -> snapshot
    state,              \* run_once's local `state` (the loaded mapping, mutated in memory)
    loaded,             \* what load_state returned at the start of this cycle
    file0,              \* the state file as it was when this cycle started
    pc,                 \* position of run_once: start, loop, saving, done, raised, killed
    i,                  \* index of the ticker the loop is at (1-based)
    mh_result,          \* last outcome of is_market_hours: none, true, false, raise
    trace,              \* per processed ticker: what the environment returned and how the iteration ended
    resolved,           \* tickers auto_keywords was called for, in call order (this cycle)
    notified,           \* notify_ntfy calls of this cycle, in call order
    loads,              \* number of load_state calls of this cycle
    saves,              \* number of save_state calls of this cycle
    cycle,              \* number of the current cycle (the scheduler runs run_once repeatedly)
    call                \* the last call of a helper function on its own: its arguments and result

vars == <<tickers, threshold_pct, test_cfg, market_hours_cfg, news_enabled, clock,
          file, state, loaded, file0, pc, i, mh_result, trace, resolved, notified,
          loads, saves, cycle, call>>

cfgVars == <<tickers, threshold_pct, test_cfg, market_hours_cfg, news_enabled>>

-----------------------------------------------------------------------------
(* Bounds of the model *)

MaxTickers == 2
MaxCycles == 2
\* the longest ticker list of a run that is followed over several cycles
MaxCycleTickers == 1

\* Ticker symbols offered by the configuration page; the list of a run is a prefix.
AllTickers == <<"AAPL", "O", "QDVX.DE", "TUI1.DE">>

\* A key of the state file that is in no ticker list of the model.
OtherTicker == "SAP.DE"

TickerLists == {SubSeq(AllTickers, 1, n) : n \in 0..MaxTickers}

Thresholds == {3}

\* (open, last) pairs get_open_and_last may return.
PricePairs ==
    {<<0, 100>>, <<-100, 100>>, <<100, 97>>, <<100, 101>>, <<100, 104>>,
     <<200, 204>>, <<200, 206>>}

\* Values of test.force_delta_pct: <<>> is JSON null, <<v>> the number v.
ForcedValues == {<<>>, <<0>>, <<5>>, <<-3>>}

Abs(x) == IF x < 0 THEN -x ELSE x

EmptyMap == [t \in {} |-> 0]

Snapshot(last, open, alerted) ==
    [last_price |-> last, open_price |-> open, alerted |-> alerted]

\* an assignment that replaces the mapping by the one entry
DictSet_only(d, k, v) == [x \in {k} |-> v]

\* state[ticker] = value on a Python dict
DictSet(d, k, v) == [t \in (DOMAIN d) \cup {k} |-> IF t = k THEN v ELSE d[t]]

\* Contents of the state file.  kind "missing": no file; "corrupt": a file that
\* does not parse as JSON (an empty or partly written file); "json": data.
FileMissing == [kind |-> "missing", data |-> EmptyMap]
FileCorrupt == [kind |-> "corrupt", data |-> EmptyMap]
\* a file that exists and cannot be opened for reading
FileUnreadable == [kind |-> "unreadable", data |-> EmptyMap]
FileJson(d) == [kind |-> "json", data |-> d]

-----------------------------------------------------------------------------
(* core.py: is_market_hours *)

\* is_market_hours with the end of the window included
is_market_hours_closed_end(cfg_mh, now) ==
    IF ~cfg_mh.enabled THEN "true"
    ELSE IF ~cfg_mh.tz_valid THEN "raise"
    ELSE IF now.weekday >= 5 THEN "false"
    ELSE IF ~(cfg_mh.start_hour <= now.hour /\ now.hour <= cfg_mh.end_hour) THEN "false"
    ELSE "true"

\* is_market_hours taking the current time without resolving cfg_mh["tz"]
is_market_hours_tz_unresolved(cfg_mh, now) ==
    IF ~cfg_mh.enabled THEN "true"
    ELSE IF now.weekday >= 5 THEN "false"
    ELSE IF ~(cfg_mh.start_hour <= now.hour /\ now.hour < cfg_mh.end_hour) THEN "false"
    ELSE "true"

\* lines 154-155 return True for a disabled check before line 157 resolves the
\* timezone; now_tz raises for an invalid timezone identifier (ZoneInfo(tz)).
is_market_hours(cfg_mh, now) ==
    IF ~cfg_mh.enabled THEN "true"
    ELSE IF ~cfg_mh.tz_valid THEN "raise"
    ELSE IF now.weekday >= 5 THEN "false"
    ELSE IF ~(cfg_mh.start_hour <= now.hour /\ now.hour < cfg_mh.end_hour) THEN "false"
    ELSE "true"

-----------------------------------------------------------------------------
(* state.py: load_state *)

load_state(f) == IF f.kind = "json" THEN f.data ELSE EmptyMap

\* load_state without the try block: a file that does not parse raises
load_state_raises_unparsed(f) == f.kind = "corrupt"

\* lines 18-28: a missing file returns {} on line 20; open and json.load run
\* inside try, and except Exception returns {} on line 28: no path raises
load_state_raises(f) == FALSE

-----------------------------------------------------------------------------
(* core.py: run_once, the body of the try block of one loop iteration *)

\* the open-price check as a test against zero only
OpenTooSmall_zero_only(price_open) == price_open = 0

\* line 207: if price_open < 1e-15
OpenTooSmall(price_open) == price_open < 1

\* a / b for b # 0 (the quotients of the model are exact)
Quot(a, b) == IF b < 0 THEN (-a) \div (-b) ELSE a \div b

\* line 210: delta_pct = (price_last - price_open) / price_open * 100
ComputeDelta(price_open, price_last) == Quot((price_last - price_open) * 100, price_open)

\* the override test by truthiness: a forced value of 0 counts as unset
ForceActive_truthy(tc) ==
    tc.enabled /\ tc.force_delta_pct # <<>> /\ tc.force_delta_pct[1] # 0

\* line 212: test_cfg.get("enabled") and test_cfg.get("force_delta_pct") is not None
ForceActive(tc) == tc.enabled /\ tc.force_delta_pct # <<>>

\* lines 210-215: the delta the decision uses
EffectiveDelta(tc, price_open, price_last) ==
    IF ForceActive(tc) THEN tc.force_delta_pct[1]
    ELSE ComputeDelta(price_open, price_last)

\* line 216: price_last = price_open * (1.0 + delta_pct / 100.0), under the override only
EffectiveLast(tc, price_open, price_last) ==
    IF ForceActive(tc) THEN (price_open * (100 + tc.force_delta_pct[1])) \div 100
    ELSE price_last

\* the threshold test without abs(): only rises alert
ShouldAlert_signed(delta_pct, thr) == delta_pct >= thr

\* line 218: if abs(delta_pct) >= threshold_pct
ShouldAlert(delta_pct, thr) == Abs(delta_pct) >= thr

\* the threshold test with a de-bounce on the loaded state
AlertBranchTaken_debounced(st, ticker, delta_pct, thr) ==
    /\ Abs(delta_pct) >= thr
    /\ ~(ticker \in DOMAIN st /\ st[ticker].alerted)

\* line 218 as run_once reaches it: `state` and `ticker` are in scope there and
\* the condition reads neither
AlertBranchTaken(st, ticker, delta_pct, thr) == ShouldAlert(delta_pct, thr)

\* line 222: the snapshot set in the alert branch
AlertSnapshot(price_last, price_open) == Snapshot(price_last, price_open, TRUE)

\* the else branch's snapshot with the two prices swapped
QuietSnapshot_swapped(price_last, price_open) == Snapshot(price_open, price_last, FALSE)

\* line 251: the snapshot set in the else branch
QuietSnapshot(price_last, price_open) == Snapshot(price_last, price_open, FALSE)

\* no save_state in the loop body
SavesAfterTicker_never(end) == FALSE

\* line 253: save_state is called in the loop body, after either branch
SavesAfterTicker(end) == end = "save"

\* the price fetch outside the try block: its exception leaves run_once
AfterPass_uncaught(end) == IF end = "fetch_raise" THEN "raised" ELSE "loop"

\* lines 255-258: except Exception ... continue; the loop goes on after every
\* pass, however it ended
AfterPass(end) == "loop"

\* the gate without the bypass
GateProceeds_no_bypass(mh, tc) == mh = "true"

\* lines 195-200: the cycle goes on after the gate
GateProceeds(mh, tc) == mh = "true" \/ tc.bypass_market_hours


\* What one pass through the try block (lines 206-249, up to the call of save_state)
\* does: the new in-memory state, whether auto_keywords and notify_ntfy were
\* called, and where the pass ended ("save": it reached save_state on line 253).
Result(st, company_called, sent, end) ==
    [state |-> st, resolved |-> company_called, notified |-> sent, end |-> end]

\* env: what the collaborators do in this pass.  prices: <<>> when
\* get_open_and_last raises, else <<open, last>>; company, news, ntfy: "ok" or
\* "raise" for auto_keywords, for fetch_headlines/filter_titles/_format_headlines,
\* and for notify_ntfy (which lets every error but requests.RequestException through).
TryBody(ticker, st, tc, thr, news_on, env) ==
    IF env.prices = <<>> THEN Result(st, FALSE, <<>>, "fetch_raise")
    ELSE
    LET price_open == env.prices[1]
        fetched_last == env.prices[2]
    IN  IF OpenTooSmall(price_open) THEN Result(st, FALSE, <<>>, "zero_open")
        ELSE
        LET delta_pct == EffectiveDelta(tc, price_open, fetched_last)
            price_last == EffectiveLast(tc, price_open, fetched_last)
            alerted == DictSet(st, ticker, AlertSnapshot(price_last, price_open))
            quiet == DictSet(st, ticker, QuietSnapshot(price_last, price_open))
            msg == [ticker |-> ticker, delta_pct |-> delta_pct,
                    last_price |-> price_last, open_price |-> price_open]
        IN  IF AlertBranchTaken(st, ticker, delta_pct, thr)
            THEN IF env.company = "raise"
                 THEN Result(st, TRUE, <<>>, "company_raise")
                 ELSE IF news_on /\ env.news = "raise"
                 THEN Result(alerted, TRUE, <<>>, "news_raise")
                 ELSE IF env.ntfy = "raise"
                 THEN Result(alerted, TRUE, <<msg>>, "notify_raise")
                 ELSE Result(alerted, TRUE, <<msg>>, "save")
            ELSE Result(quiet, FALSE, <<>>, "save")

Outcomes == {"ok", "raise"}

Envs == [prices : {<<>>} \cup PricePairs, company : Outcomes, news : Outcomes, ntfy : Outcomes]

TraceEntry(ticker, prices, end) == [ticker |-> ticker, prices |-> prices, end |-> end]

-----------------------------------------------------------------------------
(* core.py: run_once *)

\* lines 194-202: the market-hours gate, then load_state
Gate ==
    /\ pc = "start"
    /\ LET mh == is_market_hours(market_hours_cfg, clock)
       IN  /\ mh_result' = mh
           /\ IF mh = "raise"
              THEN /\ pc' = "raised"
                   /\ UNCHANGED <<state, loaded, loads>>
              ELSE IF GateProceeds(mh, test_cfg)
              THEN IF load_state_raises(file)
                   THEN /\ pc' = "raised"
                        /\ loads' = loads + 1
                        /\ UNCHANGED <<state, loaded>>
                   ELSE /\ pc' = "loop"
                        /\ state' = load_state(file)
                        /\ loaded' = load_state(file)
                        /\ loads' = loads + 1
              ELSE /\ pc' = "done"
                   /\ UNCHANGED <<state, loaded, loads>>
    /\ UNCHANGED <<cfgVars, clock, file, file0, i, trace, resolved, notified, saves, cycle, call>>

\* lines 204-258: one iteration of the for loop up to save_state's open of the file.
\* An exception anywhere in the try block is caught on line 255 and the loop goes on.
\* save_state (state.py:36) is path.write_text: it opens the file for writing,
\* which empties it, and then writes; json.dumps or the open may raise before.
ProcessTicker ==
    /\ pc = "loop"
    /\ i <= Len(tickers)
    /\ \E env \in Envs, open_file \in Outcomes :
         LET r == TryBody(tickers[i], state, test_cfg, threshold_pct, news_enabled, env)
             calls_save == r.end = "save" /\ SavesAfterTicker(r.end)
             end == IF calls_save THEN (IF open_file = "ok" THEN "saving" ELSE "save_raise")
                    ELSE IF r.end = "save" THEN "ok" ELSE r.end
         IN  /\ state' = r.state
             /\ resolved' = IF r.resolved THEN Append(resolved, tickers[i]) ELSE resolved
             /\ notified' = notified \o r.notified
             /\ saves' = IF calls_save THEN saves + 1 ELSE saves
             /\ trace' = Append(trace, TraceEntry(tickers[i], env.prices, end))
             /\ IF end = "saving"
                THEN /\ file' = FileCorrupt
                     /\ pc' = "saving"
                     /\ i' = i
                ELSE /\ file' = file
                     /\ pc' = AfterPass(end)
                     /\ i' = i + 1
    /\ UNCHANGED <<cfgVars, clock, loaded, file0, mh_result, loads, cycle, call>>

\* state.py:36, the write of write_text: the whole mapping replaces the file; a
\* write error leaves the emptied file and is caught on line 255 of core.py.
SaveWrite ==
    /\ pc = "saving"
    /\ \E w \in Outcomes :
         LET end == IF w = "ok" THEN "ok" ELSE "write_raise"
         IN  /\ file' = IF w = "ok" THEN FileJson(state) ELSE file
             /\ trace' = [trace EXCEPT ![Len(trace)].end = end]
             /\ pc' = AfterPass(end)
    /\ i' = i + 1
    /\ UNCHANGED <<cfgVars, clock, state, loaded, file0, mh_result, resolved, notified,
                   loads, saves, cycle, call>>

\* the for loop is exhausted: run_once returns None
Finish ==
    /\ pc = "loop"
    /\ i > Len(tickers)
    /\ pc' = "done"
    /\ UNCHANGED <<cfgVars, clock, file, state, loaded, file0, i, mh_result, trace,
                   resolved, notified, loads, saves, cycle, call>>

\* the process is killed (no handler runs; the file stays as it is at that moment)
Kill ==
    /\ pc \in {"start", "loop", "saving"}
    /\ pc' = "killed"
    /\ UNCHANGED <<cfgVars, clock, file, state, loaded, file0, i, mh_result, trace,
                   resolved, notified, loads, saves, cycle, call>>

\* main.py runs one cycle per invocation; the scheduler invokes it again: a new
\* process, the same configuration, the state file as the last cycle left it
NextCycle ==
    /\ pc \in {"done", "raised"}
    /\ cycle < MaxCycles
    /\ cycle' = cycle + 1
    /\ file0' = file
    /\ state' = EmptyMap
    /\ loaded' = EmptyMap
    /\ pc' = "start"
    /\ i' = 1
    /\ mh_result' = "none"
    /\ trace' = <<>>
    /\ resolved' = <<>>
    /\ notified' = <<>>
    /\ loads' = 0
    /\ saves' = 0
    /\ UNCHANGED <<cfgVars, clock, file, call>>

-----------------------------------------------------------------------------
(* Initial states *)

OldState ==
    [t \in {AllTickers[1], OtherTicker} |->
        IF t = OtherTicker THEN Snapshot(50, 50, FALSE) ELSE Snapshot(150, 140, TRUE)]

InitialFiles == {FileMissing, FileCorrupt, FileUnreadable, FileJson(OldState)}

Clock(weekday, hour) == [weekday |-> weekday, hour |-> hour]

MarketHours(enabled, tz_valid, start_hour, end_hour, days) ==
    [enabled |-> enabled, tz_valid |-> tz_valid, start_hour |-> start_hour,
     end_hour |-> end_hour, days_mon_to_fri_only |-> days]

\* (market hours, clock, bypass_market_hours) of the cycles the model runs
GateScenarios ==
    { <<MarketHours(FALSE, TRUE, 8, 22, TRUE), Clock(2, 23), FALSE>>,
      <<MarketHours(TRUE, TRUE, 8, 22, TRUE), Clock(2, 8), FALSE>>,
      <<MarketHours(TRUE, TRUE, 8, 22, TRUE), Clock(2, 22), FALSE>>,
      <<MarketHours(TRUE, TRUE, 8, 22, TRUE), Clock(2, 22), TRUE>>,
      <<MarketHours(TRUE, TRUE, 8, 22, TRUE), Clock(5, 10), FALSE>>,
      <<MarketHours(TRUE, FALSE, 8, 22, TRUE), Clock(2, 10), FALSE>>,
      <<MarketHours(FALSE, FALSE, 8, 22, TRUE), Clock(2, 10), FALSE>> }

TestOverrides ==
    {o \in BOOLEAN \X ForcedValues : o[1] \/ o[2] \in {<<>>, <<5>>}}

TestCfg(enabled, bypass, force) ==
    [enabled |-> enabled, bypass_market_hours |-> bypass, force_delta_pct |-> force]

NoCall == [fn |-> "none"]

InitLocals ==
    /\ file0 = file
    /\ state = EmptyMap
    /\ loaded = EmptyMap
    /\ pc = "start"
    /\ i = 1
    /\ mh_result = "none"
    /\ trace = <<>>
    /\ resolved = <<>>
    /\ notified = <<>>
    /\ loads = 0
    /\ saves = 0
    /\ cycle = 1

InitRun == call = NoCall /\ InitLocals

\* The base configuration of a run, and the runs of the model: each differs
\* from the base in at most one of gate, test override, news switch, state file.
Plain == <<FALSE, <<>> >>
Ungated == <<MarketHours(FALSE, TRUE, 8, 22, TRUE), Clock(2, 23), FALSE>>
BaseFile == FileJson(OldState)

Differing(g, o, n, f) ==
    Cardinality({d \in {<<"gate", g = Ungated>>, <<"override", o = Plain>>,
                        <<"news", n>>, <<"file", f = BaseFile>>} : ~d[2]})

Init ==
    /\ tickers \in TickerLists
    /\ threshold_pct \in Thresholds
    /\ \E g \in GateScenarios, o \in TestOverrides, n \in BOOLEAN, f \in InitialFiles :
         /\ Differing(g, o, n, f) <= 1
         /\ market_hours_cfg = g[1]
         /\ clock = g[2]
         /\ test_cfg = TestCfg(o[1], g[3], o[2])
         /\ news_enabled = n
         /\ file = f
    /\ InitRun

Next == Gate \/ ProcessTicker \/ SaveWrite \/ Finish

Spec == Init /\ [][Next]_vars

\* The same cycle with the process killed at any moment.
InitKill ==
    /\ Init
    /\ <<market_hours_cfg, clock, test_cfg.bypass_market_hours>> = Ungated
    /\ <<test_cfg.enabled, test_cfg.force_delta_pct>> = Plain

NextKill == Next \/ Kill

SpecKill == InitKill /\ [][NextKill]_vars

\* Cycle after cycle on the same state file: ungated, or stopped at the gate.
CycleGates ==
    {g \in GateScenarios :
        g = Ungated \/ ~GateProceeds(is_market_hours(g[1], g[2]), TestCfg(FALSE, g[3], <<>>))}

InitCycles ==
    /\ tickers \in {SubSeq(AllTickers, 1, n) : n \in 0..MaxCycleTickers}
    /\ threshold_pct \in Thresholds
    /\ news_enabled = TRUE
    /\ file \in InitialFiles
    /\ \E g \in CycleGates, o \in {Plain, <<TRUE, <<5>> >>} :
         /\ g = Ungated \/ o = Plain
         /\ market_hours_cfg = g[1]
         /\ clock = g[2]
         /\ test_cfg = TestCfg(o[1], g[3], o[2])
    /\ InitRun

NextCycles == Next \/ NextCycle

SpecCycles == InitCycles /\ [][NextCycles]_vars

-----------------------------------------------------------------------------
(* What the claims say of one loop iteration, written from their words.  An    *)
(* entry e of trace holds the ticker, the prices get_open_and_last returned    *)
(* (<<>> when it raised) and how the iteration ended.                          *)

ResolvedTickers == {resolved[k] : k \in DOMAIN resolved}
NotifiedTickers == {notified[k].ticker : k \in DOMAIN notified}

\* the price fetch succeeded and the open price is not below the epsilon
Decided(e) == e.prices # <<>> /\ e.prices[1] >= 1

Forced == test_cfg.enabled /\ test_cfg.force_delta_pct # <<>>

ClaimDelta(e) ==
    IF Forced THEN test_cfg.force_delta_pct[1]
    ELSE ((e.prices[2] - e.prices[1]) * 100) \div e.prices[1]

ClaimLast(e) ==
    IF Forced THEN (e.prices[1] * (100 + test_cfg.force_delta_pct[1])) \div 100
    ELSE e.prices[2]

ClaimAlerts(e) == ClaimDelta(e) >= threshold_pct \/ -ClaimDelta(e) >= threshold_pct

ExpectedSnapshot(e) ==
    [last_price |-> ClaimLast(e), open_price |-> e.prices[1], alerted |-> ClaimAlerts(e)]

\* the iteration raised between the threshold decision and the call of notify_ntfy
FailedBeforeNotify(e) == e.end \in {"company_raise", "news_raise"}

FileHas(e) ==
    /\ file.kind = "json"
    /\ e.ticker \in DOMAIN file.data
    /\ file.data[e.ticker] = ExpectedSnapshot(e)

\* C1: for every ticker whose price fetch succeeded with an open price not
\* below the epsilon, the alert branch is entered (auto_keywords is called)
\* exactly when abs(delta_pct) >= threshold_pct, delta_pct being the computed
\* or the forced value; notify_ntfy is called only in that branch, and is
\* called whenever the branch does not raise before it.  Equality alerts and
\* a negative delta alerts like a positive one.
C1_AlertIffThreshold ==
    \A k \in DOMAIN trace :
        LET e == trace[k]
        IN  Decided(e) =>
              /\ e.ticker \in ResolvedTickers <=> ClaimAlerts(e)
              /\ e.ticker \in NotifiedTickers => ClaimAlerts(e)
              /\ (ClaimAlerts(e) /\ ~FailedBeforeNotify(e)) => e.ticker \in NotifiedTickers
              /\ (~ClaimAlerts(e)) => e.end \in {"ok", "saving", "save_raise", "write_raise"}

\* a drop of exactly the threshold (100 -> 97 at 3 percent) is notified
C1_Witness ==
    /\ ~Forced
    /\ \E k \in DOMAIN trace :
         /\ trace[k].prices = <<100, 97>>
         /\ trace[k].ticker \in NotifiedTickers

\* C2: run_once goes on to load_state and the ticker loop exactly when
\* is_market_hours returned true or test.bypass_market_hours is true; with the
\* gate closed and no bypass the cycle ends normally without calling
\* load_state, get_open_and_last, auto_keywords, notify_ntfy or save_state and
\* the state file is as it was.
C2_GateOrBypass ==
    (pc # "start" /\ mh_result \in {"true", "false"}) =>
        /\ loads = 1 <=> (mh_result = "true" \/ test_cfg.bypass_market_hours)
        /\ loads \in {0, 1}
        /\ (mh_result = "false" /\ ~test_cfg.bypass_market_hours) =>
              /\ pc = "done"
              /\ trace = <<>> /\ resolved = <<>> /\ notified = <<>>
              /\ saves = 0
              /\ file = file0

\* a closed gate without bypass ended the cycle of a non-empty ticker list
C2_Witness ==
    /\ pc = "done" /\ mh_result = "false" /\ ~test_cfg.bypass_market_hours
    /\ tickers # <<>> /\ loads = 0 /\ file.kind = "json"

\* C3: once the gate is passed, the loop attempts the tickers in list order,
\* whatever way the earlier iterations ended, and run_once returns normally
\* after the last one: no state past the gate is a raise of run_once, the
\* loop can always take its next step, and at the end every ticker has been
\* attempted.
C3_EveryTickerAttempted ==
    (loads = 1) =>
        /\ pc \in {"loop", "saving", "done"}
        /\ Len(trace) <= Len(tickers)
        /\ \A k \in DOMAIN trace : trace[k].ticker = tickers[k]
        /\ pc = "loop" => i = Len(trace) + 1
        /\ pc = "saving" => i = Len(trace)
        /\ pc = "done" => Len(trace) = Len(tickers)
        /\ pc # "done" => ENABLED Next

\* the first ticker failed in the headline step and the second was processed
C3_Witness ==
    /\ pc = "done" /\ Len(trace) >= 2
    /\ trace[1].end = "news_raise"
    /\ trace[2].end = "ok"

\* C5: for every ticker processed without error, alerting or not, the state
\* file maps the ticker to {last_price: the (possibly overridden) last price,
\* open_price: the fetched open price, alerted: abs(delta_pct) >= threshold}:
\* the file holds it when the iteration ends, and holds it whenever the file
\* is a JSON mapping afterwards.
C5_SnapshotPersisted ==
    /\ \A k \in DOMAIN trace :
          (trace[k].end = "ok" /\ file.kind = "json") => FileHas(trace[k])
    /\ (pc \in {"loop", "done"} /\ trace # <<>> /\ trace[Len(trace)].end = "ok")
          => FileHas(trace[Len(trace)])

\* open 100, last 104, threshold 3: the file maps AAPL to {104, 100, true}
C5_Witness ==
    /\ ~Forced /\ threshold_pct = 3 /\ pc = "done"
    /\ \E k \in DOMAIN trace :
         /\ trace[k].ticker = "AAPL" /\ trace[k].prices = <<100, 104>> /\ trace[k].end = "ok"
    /\ file.kind = "json"
    /\ file.data["AAPL"] = Snapshot(104, 100, TRUE)

\* the in-memory entry of ticker t is the loaded one (or there is none)
StateUntouched(t) ==
    /\ t \in DOMAIN state <=> t \in DOMAIN loaded
    /\ t \in DOMAIN state => state[t] = loaded[t]

\* C6: an open price of zero or below the epsilon makes the iteration a
\* per-ticker error, with or without a forced delta: no alert branch, no
\* notification, no snapshot set for the ticker; run_once does not raise and
\* the remaining tickers are processed.
C6_ZeroOpenIsTickerError ==
    /\ \A k \in DOMAIN trace :
          LET e == trace[k]
          IN  (e.prices # <<>> /\ e.prices[1] < 1) =>
                /\ e.end = "zero_open"
                /\ e.ticker \notin ResolvedTickers
                /\ e.ticker \notin NotifiedTickers
                /\ StateUntouched(e.ticker)
                /\ pc \in {"loop", "saving", "done"}
                /\ pc = "loop" => i > k
    /\ (pc = "done" /\ loads = 1) => Len(trace) = Len(tickers)

\* with a forced delta, a zero open price on the first ticker and the second processed
C6_Witness ==
    /\ Forced /\ pc = "done" /\ Len(trace) >= 2
    /\ trace[1].prices = <<0, 100>>
    /\ trace[2].end = "ok"

\* C7: with test.enabled and a non-null force_delta_pct (0 included) the
\* decision uses the forced value and the recorded last price is
\* open * (1 + forced / 100); otherwise the computed delta and the fetched
\* last price are used.
C7_ForcedDelta ==
    \A k \in DOMAIN trace :
        LET e == trace[k]
            on == test_cfg.enabled /\ test_cfg.force_delta_pct # <<>>
            open == e.prices[1]
            delta == IF on THEN test_cfg.force_delta_pct[1]
                     ELSE ((e.prices[2] - open) * 100) \div open
            last == IF on THEN (open * (100 + test_cfg.force_delta_pct[1])) \div 100
                    ELSE e.prices[2]
            alerts == delta >= threshold_pct \/ delta <= -threshold_pct
        IN  Decided(e) =>
              /\ e.ticker \in ResolvedTickers <=> alerts
              /\ e.end # "company_raise" =>
                    /\ e.ticker \in DOMAIN state
                    /\ state[e.ticker].last_price = last
                    /\ state[e.ticker].alerted = alerts
              /\ \A m \in DOMAIN notified :
                    notified[m].ticker = e.ticker =>
                        notified[m].delta_pct = delta /\ notified[m].last_price = last

\* forced 5 with open 100 records 105, whatever last price was fetched
C7_Witness ==
    /\ test_cfg.enabled /\ test_cfg.force_delta_pct = <<5>>
    /\ \E k \in DOMAIN trace :
         /\ trace[k].prices = <<100, 97>>
         /\ trace[k].ticker \in DOMAIN state
         /\ state[trace[k].ticker].last_price = 105
         /\ trace[k].ticker \in NotifiedTickers

\* every ticker processed without error so far has its snapshot in the file
OkSnapshotsInFile == \A k \in DOMAIN trace : trace[k].end = "ok" => FileHas(trace[k])

\* a save_state after iteration k emptied the file and no later one completed
RewriteOpenAfter(k) ==
    \E j \in DOMAIN trace :
        /\ j > k
        /\ trace[j].end \in {"saving", "write_raise"}
        /\ \A n \in DOMAIN trace : n > j => trace[n].end # "ok"

\* C4 as claimed: when ticker i has been processed without error the file
\* holds its snapshot and those of the earlier such tickers before the next
\* price fetch, and a kill at any later point of the loop leaves them there.
C4_KillKeepsSnapshots ==
    /\ (pc = "loop" /\ trace # <<>> /\ trace[Len(trace)].end = "ok") => OkSnapshotsInFile
    /\ pc = "killed" => OkSnapshotsInFile

\* C4 amended: when ticker i has been processed without error the file holds
\* its snapshot and those of the earlier such tickers before the next price
\* fetch; from then on, killed or not, the file holds them except while a
\* later save_state has emptied the file and no save_state has completed
\* since (write_text truncates the file before it writes).
C4_WriteThroughPerTicker ==
    /\ (pc = "loop" /\ trace # <<>> /\ trace[Len(trace)].end = "ok") => OkSnapshotsInFile
    /\ \A k \in DOMAIN trace :
          trace[k].end = "ok" => (FileHas(trace[k]) \/ RewriteOpenAfter(k))

\* killed after the second ticker's price fetch failed: the first snapshot is in the file
C4_Witness ==
    /\ pc = "killed" /\ Len(trace) = 2
    /\ trace[1].end = "ok" /\ trace[2].end = "fetch_raise"
    /\ FileHas(trace[1])

\* the messages of a cycle as a function of the configuration, the fetched
\* prices and the collaborators' failures alone
RECURSIVE ExpectedMessages(_)
ExpectedMessages(tr) ==
    IF tr = <<>> THEN <<>>
    ELSE LET e == tr[Len(tr)]
             rest == ExpectedMessages(SubSeq(tr, 1, Len(tr) - 1))
         IN  IF Decided(e) /\ ClaimAlerts(e) /\ ~FailedBeforeNotify(e)
             THEN Append(rest, [ticker |-> e.ticker, delta_pct |-> ClaimDelta(e),
                                last_price |-> ClaimLast(e), open_price |-> e.prices[1]])
             ELSE rest

C11_LoadNeverRaises ==
    /\ loads >= 1 => pc \in {"loop", "saving", "done"}
    /\ (loads >= 1 /\ file0.kind # "json") =>
          /\ loaded = EmptyMap
          /\ \A t \in DOMAIN state : \E k \in DOMAIN trace : trace[k].ticker = t
          /\ pc = "done" => Len(trace) = Len(tickers)

\* a cycle on an unparseable file processed its two tickers
C11_Witness ==
    /\ file0 = FileCorrupt /\ pc = "done" /\ Len(trace) = 2
    /\ trace[1].end = "ok" /\ trace[2].end = "ok"

\* C14 as stated: with an invalid timezone identifier run_once aborts with an
\* uncaught error before load_state, any price fetch and any notification,
\* whether the market-hours check is enabled or not.
C14_InvalidTzAlwaysAborts ==
    (~market_hours_cfg.tz_valid /\ pc # "start") =>
        /\ pc = "raised"
        /\ loads = 0 /\ saves = 0
        /\ trace = <<>> /\ resolved = <<>> /\ notified = <<>>

\* C14: with the market-hours check enabled and an invalid timezone identifier
\* run_once aborts with an uncaught error before load_state, any price fetch
\* and any notification and leaves the state file as it was; with the check
\* disabled the identifier is never resolved, is_market_hours returns true and
\* the cycle loads the state and runs the ticker loop.
C14_InvalidTzAbortsWhenEnabled ==
    (~market_hours_cfg.tz_valid /\ pc # "start") =>
        IF market_hours_cfg.enabled
        THEN /\ pc = "raised" /\ mh_result = "raise"
             /\ loads = 0 /\ saves = 0
             /\ trace = <<>> /\ resolved = <<>> /\ notified = <<>>
             /\ file = file0
        ELSE /\ mh_result = "true"
             /\ loads = 1
             /\ pc \in {"loop", "saving", "done"}
             /\ pc = "done" => Len(trace) = Len(tickers)

\* an enabled check on an invalid identifier aborted a cycle that had tickers
\* to process
C14_Witness ==
    /\ pc = "raised" /\ market_hours_cfg.enabled /\ ~market_hours_cfg.tz_valid
    /\ tickers # <<>> /\ loads = 0

\* the file was written by a save_state of this cycle and its entry for t is
\* alerted and was set in this cycle (it is not the loaded entry)
AlertedEntryWritten(t) ==
    /\ saves > 0 /\ file.kind = "json"
    /\ t \in DOMAIN file.data
    /\ file.data[t].alerted
    /\ (t \notin DOMAIN loaded \/ file.data[t] # loaded[t])

\* C17: in every content of the state file written during a cycle, an entry
\* set in this cycle with alerted = true belongs to a ticker for which
\* notify_ntfy was called earlier in the cycle; a ticker whose iteration raised
\* after the threshold decision and before notify_ntfy is not written as
\* alerted by the save_state of a later ticker.
C17_AlertedOnlyIfNotified ==
    \A k \in DOMAIN trace :
        AlertedEntryWritten(trace[k].ticker) => trace[k].ticker \in NotifiedTickers

\* the entry of t in the file is the loaded one (or there is none)
FileUntouched(t) ==
    /\ t \in DOMAIN file.data <=> t \in DOMAIN loaded
    /\ t \in DOMAIN file.data => file.data[t] = loaded[t]

TickerSet == {tickers[k] : k \in DOMAIN tickers}

\* C18: every key of the loaded state that is not in the ticker list has its
\* loaded value in the in-memory state and in every mapping save_state wrote
\* during the cycle, and a ticker whose price fetch failed or whose open price
\* is below the epsilon has its loaded snapshot, or none, in the in-memory
\* state and in the file's mapping, up to the end of the cycle.
C18_UnrelatedSnapshotsKept ==
    /\ loads = 1 =>
          \A t \in DOMAIN loaded \ TickerSet :
              /\ StateUntouched(t)
              /\ file.kind = "json" => FileUntouched(t)
    /\ \A k \in DOMAIN trace :
          trace[k].end \in {"fetch_raise", "zero_open"} =>
              /\ StateUntouched(trace[k].ticker)
              /\ file.kind = "json" => FileUntouched(trace[k].ticker)

\* AAPL's fetch failed and O was saved: the file written for O holds the loaded
\* snapshots of AAPL and of SAP.DE, which is in no ticker list
C18_Witness ==
    /\ pc = "done" /\ file0 = FileJson(OldState) /\ saves > 0
    /\ Len(trace) = 2
    /\ trace[1].ticker = "AAPL" /\ trace[1].end = "fetch_raise"
    /\ trace[2].end = "ok"
    /\ file.kind = "json" /\ file # file0
    /\ file.data["AAPL"] = Snapshot(150, 140, TRUE)
    /\ file.data[OtherTicker] = Snapshot(50, 50, FALSE)

-----------------------------------------------------------------------------
(* is_market_hours on its own: every configuration, the clock running *)

StartHours == {0, 8}
EndHours == {8, 22, 23}

MarketHoursCfgs ==
    {MarketHours(e, z, s, n, d) :
        e \in BOOLEAN, z \in BOOLEAN, s \in StartHours, n \in EndHours, d \in BOOLEAN}

InitHours ==
    /\ tickers = <<>>
    /\ threshold_pct \in Thresholds
    /\ news_enabled = FALSE
    /\ file = FileMissing
    /\ test_cfg = TestCfg(FALSE, FALSE, <<>>)
    /\ market_hours_cfg \in MarketHoursCfgs
    /\ clock \in {Clock(0, 0), Clock(4, 20), Clock(5, 7)}
    /\ InitRun

\* a call of is_market_hours(cfg_mh) at the current time
CheckMarketHours ==
    /\ mh_result' = is_market_hours(market_hours_cfg, clock)
    /\ UNCHANGED <<cfgVars, clock, file, state, loaded, file0, pc, i, trace, resolved,
                   notified, loads, saves, cycle, call>>

\* an hour passes
Tick ==
    /\ clock' = IF clock.hour < 23
                THEN Clock(clock.weekday, clock.hour + 1)
                ELSE Clock((clock.weekday + 1) % 7, 0)
    /\ mh_result' = "none"
    /\ UNCHANGED <<cfgVars, file, state, loaded, file0, pc, i, trace, resolved,
                   notified, loads, saves, cycle, call>>

NextHours == CheckMarketHours \/ Tick

SpecHours == InitHours /\ [][NextHours]_vars

InWindow == market_hours_cfg.start_hour <= clock.hour /\ clock.hour < market_hours_cfg.end_hour

Gating == market_hours_cfg.enabled /\ market_hours_cfg.tz_valid /\ mh_result # "none"

\* C8: with gating disabled is_market_hours returns true at every time; with
\* gating enabled, on Monday to Friday it returns true exactly when
\* start_hour <= current_hour < end_hour: true at start_hour, false at end_hour.
C8_HalfOpenWindow ==
    /\ (mh_result # "none" /\ ~market_hours_cfg.enabled) => mh_result = "true"
    /\ (Gating /\ clock.weekday <= 4) =>
          /\ mh_result = "true" <=> InWindow
          /\ mh_result \in {"true", "false"}
          /\ (clock.hour = market_hours_cfg.end_hour) => mh_result = "false"
          /\ (clock.hour = market_hours_cfg.start_hour
              /\ market_hours_cfg.start_hour < market_hours_cfg.end_hour) => mh_result = "true"

\* a weekday call at the excluded end of the window [8, 22)
C8_Witness ==
    /\ Gating /\ clock.weekday = 4
    /\ market_hours_cfg.start_hour = 8 /\ market_hours_cfg.end_hour = 22
    /\ clock.hour = 22 /\ mh_result = "false"

\* C9: with gating enabled, on Saturday and Sunday is_market_hours returns
\* false when days_mon_to_fri_only is true, and when the flag is false the
\* weekday is ignored: the result is true exactly inside the window.
C9_WeekendFlag ==
    (Gating /\ clock.weekday >= 5) =>
        IF market_hours_cfg.days_mon_to_fri_only
        THEN mh_result = "false"
        ELSE mh_result = "true" <=> InWindow

-----------------------------------------------------------------------------
(* The helper functions on their own.  A string is the sequence of its
   characters; run_once is idle. *)

InitIdle ==
    /\ tickers = <<>>
    /\ threshold_pct \in Thresholds
    /\ news_enabled = FALSE
    /\ file = FileMissing
    /\ test_cfg = TestCfg(FALSE, FALSE, <<>>)
    /\ market_hours_cfg = Ungated[1]
    /\ clock = Ungated[2]
    /\ InitLocals

\* A URL by the parts the code looks at: the scheme ("" when there is none),
\* the host, and the url= parameter of the query: "absent", "empty" (url=
\* followed by nothing or by &) or "value".
Url(scheme, host, param) == [scheme |-> scheme, host |-> host, param |-> param]

\* the empty string
EmptyUrl == Url("", "", "absent")

\* a link of the Google News RSS feed
FeedLink == Url("https", "news.google.com", "absent")

-----------------------------------------------------------------------------
(* news.py: filter_titles *)

MaxItems == 2
MaxKeywords == 2

UpperCase == <<"A", "E", "L", "P", "Q">>
LowerCase == <<"a", "e", "l", "p", "q">>

\* str.lower() on one character and on a string
lower_char(c) ==
    IF \E k \in DOMAIN UpperCase : UpperCase[k] = c
    THEN LowerCase[CHOOSE k \in DOMAIN UpperCase : UpperCase[k] = c]
    ELSE c

lower(str) == [k \in DOMAIN str |-> lower_char(str[k])]

\* Python's `sub in str` on strings
Contains(sub, str) ==
    \E k \in 0..(Len(str) - Len(sub)) : SubSeq(str, k + 1, k + Len(sub)) = sub

\* filter_titles comparing the strings as they are
filter_titles_case_sensitive(items, required_keywords) ==
    IF required_keywords = <<>> THEN items
    ELSE SelectSeq(items,
            LAMBDA item : \E k \in DOMAIN required_keywords :
                              Contains(required_keywords[k], item.title))

\* lines 22-29: `if not required_keywords: return items`, else the list
\* comprehension over items with any(keyword.lower() in item["title"].lower())
filter_titles(items, required_keywords) ==
    IF required_keywords = <<>> THEN items
    ELSE SelectSeq(items,
            LAMBDA item : \E k \in DOMAIN required_keywords :
                              Contains(lower(required_keywords[k]), lower(item.title)))

HeadlineItem(title, source, link) == [title |-> title, source |-> source, link |-> link]

\* "Apple Q3", "pineapple", "Pear"
Titles ==
    { <<"A", "p", "p", "l", "e", " ", "Q", "3">>,
      <<"p", "i", "n", "e", "a", "p", "p", "l", "e">>,
      <<"P", "e", "a", "r">> }

\* "apple", "PEA", "q4", ""
Keywords ==
    { <<"a", "p", "p", "l", "e">>, <<"P", "E", "A">>, <<"q", "4">>, <<>> }

SeqsUpTo(S, n) == UNION {[1..m -> S] : m \in 0..n}

FilterInputs ==
    [items : SeqsUpTo({HeadlineItem(t, "", FeedLink) : t \in Titles}, MaxItems),
     required_keywords : SeqsUpTo(Keywords, MaxKeywords)]

InitFilter ==
    /\ call \in {[fn |-> "filter_titles", args |-> a, done |-> FALSE, result |-> <<>>] :
                    a \in FilterInputs}
    /\ InitIdle

\* a call filter_titles(items, required_keywords)
CallFilterTitles ==
    /\ call.fn = "filter_titles" /\ ~call.done
    /\ call' = [call EXCEPT !.done = TRUE,
                            !.result = filter_titles(call.args.items,
                                                     call.args.required_keywords)]
    /\ UNCHANGED <<cfgVars, clock, file, state, loaded, file0, pc, i, mh_result, trace,
                   resolved, notified, loads, saves, cycle>>

NextFilter == CallFilterTitles

SpecFilter == InitFilter /\ [][NextFilter]_vars

\* two characters are the same letter up to case
SameLetter(a, b) ==
    \/ a = b
    \/ \E k \in DOMAIN UpperCase :
          {a, b} = {UpperCase[k], LowerCase[k]}

\* keyword kw occurs in title t at some offset, case ignored
OccursIn(kw, t) ==
    \E off \in 0..(Len(t) - Len(kw)) :
        \A n \in 1..Len(kw) : SameLetter(kw[n], t[off + n])

\* positions of the items whose title contains at least one keyword
Kept(items, kws) ==
    {k \in DOMAIN items : \E j \in DOMAIN kws : OccursIn(kws[j], items[k].title)}

\* the j-th smallest position of the set K
NthOf(K, j) == CHOOSE k \in K : Cardinality({m \in K : m < k}) = j - 1

\* C12: filter_titles keeps order and items: with empty required_keywords it
\* returns the items as they are; otherwise the result is exactly the
\* subsequence of the items whose title contains at least one keyword as a
\* substring, case ignored; filter_titles([], keywords) is [].
C12_FilterTitles ==
    (call.fn = "filter_titles" /\ call.done) =>
        LET items == call.args.items
            kws == call.args.required_keywords
            K == Kept(items, kws)
        IN  /\ kws = <<>> => call.result = items
            /\ kws # <<>> =>
                  /\ Len(call.result) = Cardinality(K)
                  /\ \A j \in 1..Len(call.result) : call.result[j] = items[NthOf(K, j)]
            /\ items = <<>> => call.result = <<>>

\* keyword "apple" kept "Apple Q3" and dropped "Pear" before it
C12_Witness ==
    /\ call.fn = "filter_titles" /\ call.done
    /\ call.args.required_keywords = << <<"a", "p", "p", "l", "e">> >>
    /\ Len(call.args.items) = 2
    /\ call.args.items[1].title = <<"P", "e", "a", "r">>
    /\ call.args.items[2].title = <<"A", "p", "p", "l", "e", " ", "Q", "3">>
    /\ call.result = <<call.args.items[2]>>

-----------------------------------------------------------------------------
(* news.py: fetch_headlines *)

MaxFeed == 3
MaxLimit == 2

\* the default of lookback_hours
LookbackHours == 12

\* hours between an entry's published time and now
Ages == {LookbackHours - 1, LookbackHours, LookbackHours + 1}

FeedEntry(title, source, link, age) ==
    [title |-> title, source |-> source, link |-> link, age |-> age]

FeedEntries == {FeedEntry(t, "Reuters", FeedLink, a) : t \in Titles, a \in Ages}

\* lines 79-80: published < cutoff, cutoff = now - lookback_hours
TooOld(entry, lookback_hours) == entry.age > lookback_hours

\* lines 77-94: the loop over feed.entries from entry k on, out being the list
\* collected so far; the length test of line 93 comes after the append
RECURSIVE FetchLoop(_, _, _, _, _)
FetchLoop(entries, k, out, limit, lookback_hours) ==
    IF k > Len(entries) THEN out
    ELSE IF TooOld(entries[k], lookback_hours)
    THEN FetchLoop(entries, k + 1, out, limit, lookback_hours)
    ELSE LET item == HeadlineItem(entries[k].title, entries[k].source, entries[k].link)
             out2 == Append(out, item)
         IN  IF Len(out2) >= limit THEN out2
             ELSE FetchLoop(entries, k + 1, out2, limit, lookback_hours)

\* lines 70-96, feed being what feedparser.parse returned
fetch_headlines(feed, limit, lookback_hours) == FetchLoop(feed, 1, <<>>, limit, lookback_hours)

FetchInputs ==
    [feed : SeqsUpTo(FeedEntries, MaxFeed), limit : 0..MaxLimit,
     lookback_hours : {LookbackHours}]

InitFetch ==
    /\ call \in {[fn |-> "fetch_headlines", args |-> a, done |-> FALSE, result |-> <<>>] :
                    a \in FetchInputs}
    /\ InitIdle

\* a call fetch_headlines(query, limit, lookback_hours) on a parsed feed
CallFetchHeadlines ==
    /\ call.fn = "fetch_headlines" /\ ~call.done
    /\ call' = [call EXCEPT !.done = TRUE,
                            !.result = fetch_headlines(call.args.feed, call.args.limit,
                                                       call.args.lookback_hours)]
    /\ UNCHANGED <<cfgVars, clock, file, state, loaded, file0, pc, i, mh_result, trace,
                   resolved, notified, loads, saves, cycle>>

NextFetch == CallFetchHeadlines

SpecFetch == InitFetch /\ [][NextFetch]_vars

\* positions of the entries not older than lookback_hours
Fresh(feed, lookback_hours) == {k \in DOMAIN feed : feed[k].age <= lookback_hours}

Min(a, b) == IF a <= b THEN a ELSE b

\* C13: for every feed and every limit >= 0, limit = 0 included,
\* fetch_headlines returns at most limit items: the first min(limit, k), in
\* feed order, of the k entries whose published time is not older than
\* lookback_hours (13 hours old is out, 11 hours old is in, for 12).
C13_AtMostLimit ==
    (call.fn = "fetch_headlines" /\ call.done) =>
        LET feed == call.args.feed
            F == Fresh(feed, call.args.lookback_hours)
            n == Min(call.args.limit, Cardinality(F))
        IN  /\ Len(call.result) <= call.args.limit
            /\ Len(call.result) = n
            /\ \A j \in 1..n :
                  LET e == feed[NthOf(F, j)]
                  IN  call.result[j] = HeadlineItem(e.title, e.source, e.link)

-----------------------------------------------------------------------------
(* core.py: _ensure_https, _extract_original_url *)

Links ==
    {Url(sch, h, q) : sch \in {"", "http", "https"},
                      h \in {"news.google.com", "example.com"},
                      q \in {"absent", "empty", "value"}}

\* the article URL carried in the url= parameter, and the URL at the end of the redirects
ParamArticle == Url("https", "publisher.example", "absent")
FinalUrl == Url("https", "www.publisher.example", "absent")

\* what requests.head / requests.get do: a response with status 200, a response
\* with another status, or an exception
HttpOutcomes == {"200", "404", "exception"}

\* lines 27-32
_ensure_https(u) == IF u.scheme \in {"http", "https"} THEN u ELSE [u EXCEPT !.scheme = "https"]

Unbound == <<>>
Bound(v) == <<v>>

Returned(v) == [raised |-> FALSE, value |-> <<v>>]
Raised == [raised |-> TRUE, value |-> <<>>]
\* the result slot of a call that has not run yet
NoResult == [raised |-> FALSE, value |-> <<>>]

\* lines 55-59: the local url after the news.google.com block; split("url=")[1]
\* raises IndexError without a url= parameter, which is caught, and url is
\* never assigned; no assignment either for another host
UrlFromQuery(link) ==
    IF link.host = "news.google.com"
    THEN IF link.param = "absent" THEN Unbound
         ELSE IF link.param = "empty" THEN Bound(EmptyUrl)
         ELSE Bound(ParamArticle)
    ELSE Unbound

\* lines 61-71: url after the redirect resolution; only a 200 response assigns
UrlAfterRedirects(url, resolve_redirects, head, get) ==
    IF ~resolve_redirects THEN url
    ELSE IF head = "exception" THEN url
    ELSE IF head = "200" THEN Bound(_ensure_https(FinalUrl))
    ELSE IF get = "exception" THEN url
    ELSE IF get = "200" THEN Bound(_ensure_https(FinalUrl))
    ELSE url

\* lines 52-73; line 73 `return url if url else link` reads url, which raises
\* UnboundLocalError when no branch assigned it
_extract_original_url(link0, resolve_redirects, head, get) ==
    LET link == _ensure_https(link0)
        url == UrlAfterRedirects(UrlFromQuery(link), resolve_redirects, head, get)
    IN  IF url = Unbound THEN Raised
        ELSE IF url[1] = EmptyUrl THEN Returned(link)
        ELSE Returned(url[1])

UrlInputs ==
    [link : Links, resolve_redirects : BOOLEAN, head : HttpOutcomes, get : HttpOutcomes]

InitUrl ==
    /\ call \in {[fn |-> "_extract_original_url", args |-> a, done |-> FALSE,
                  result |-> NoResult] : a \in UrlInputs}
    /\ InitIdle

\* a call _extract_original_url(link, resolve_redirects=...)
CallExtractOriginalUrl ==
    /\ call.fn = "_extract_original_url" /\ ~call.done
    /\ call' = [call EXCEPT !.done = TRUE,
                            !.result = _extract_original_url(
                                           call.args.link, call.args.resolve_redirects,
                                           call.args.head, call.args.get)]
    /\ UNCHANGED <<cfgVars, clock, file, state, loaded, file0, pc, i, mh_result, trace,
                   resolved, notified, loads, saves, cycle>>

NextUrl == CallExtractOriginalUrl

SpecUrl == InitUrl /\ [][NextUrl]_vars

\* the link with https:// in front when it has no scheme
Normalised(link) == IF link.scheme = "" THEN Url("https", link.host, link.param) ELSE link

\* a redirect resolution was asked for and ended in a 200 response
Resolved(a) ==
    /\ a.resolve_redirects
    /\ \/ a.head = "200"
       \/ a.head = "404" /\ a.get = "200"

\* C15: _extract_original_url never raises and always returns a URL, for a
\* news.google.com link with or without a url= parameter and for any other
\* host, whatever the redirect resolution does (200, another status, an
\* exception): the resolved article URL, or on any failure the original link
\* with its scheme normalised.
C15_ExtractNeverRaises ==
    (call.fn = "_extract_original_url" /\ call.done) =>
        /\ ~call.result.raised
        /\ call.result.value # <<>>
        /\ call.result.value[1] \in {FinalUrl, ParamArticle, Normalised(call.args.link)}
        /\ (~Resolved(call.args) /\ call.args.link.host # "news.google.com")
              => call.result.value[1] = Normalised(call.args.link)

-----------------------------------------------------------------------------
(* core.py: _format_headlines *)

MaxHeadlines == 2

\* str.strip() for blanks
RECURSIVE strip(_)
strip(str) ==
    IF str # <<>> /\ str[1] = " " THEN strip(Tail(str))
    ELSE IF str # <<>> /\ str[Len(str)] = " " THEN strip(SubSeq(str, 1, Len(str) - 1))
    ELSE str

\* one element of the list headlines: line 119 with the resolved URL
\* (orig = <<url>>), line 121 without a link (orig = <<>>)
Headline(title, source, orig) == [title |-> title, source |-> source, orig |-> orig]

Formatted(headlines) == [raised |-> FALSE, entries |-> headlines]
FormatRaised == [raised |-> TRUE, entries |-> <<>>]

\* lines 112-122: the loop from item k on.  headlines is the list so far and
\* headline the local of that name, assigned only in the branch of a non-empty
\* link; line 122 appends it after either branch.  responses[k] is what the
\* network does for item k's link.
RECURSIVE FormatLoop(_, _, _, _, _)
FormatLoop(items, responses, k, headlines, headline) ==
    IF k > Len(items) THEN Formatted(headlines)
    ELSE
    LET item == items[k]
        title == strip(item.title)
    IN  IF item.link # EmptyUrl
        THEN LET r == _extract_original_url(item.link, TRUE,
                                            responses[k].head, responses[k].get)
             IN  IF r.raised THEN FormatRaised
                 ELSE LET h == Headline(title, item.source, r.value)
                      IN  FormatLoop(items, responses, k + 1, Append(headlines, h), Bound(h))
        ELSE LET hs == Append(headlines, Headline(title, item.source, <<>>))
             IN  IF headline = Unbound THEN FormatRaised
                 ELSE FormatLoop(items, responses, k + 1, Append(hs, headline[1]), headline)

\* lines 107-124; the empty list gives the empty string, no entry
_format_headlines(items, responses) ==
    IF items = <<>> THEN Formatted(<<>>)
    ELSE FormatLoop(items, responses, 1, <<>>, Unbound)

\* "Apple Q3", " Pear "
FormatTitles ==
    { <<"A", "p", "p", "l", "e", " ", "Q", "3">>, <<" ", "P", "e", "a", "r", " ">> }

\* no link, a Google News link carrying the article URL, a publisher link
FormatLinks == {EmptyUrl, Url("https", "news.google.com", "value"), Url("https", "example.com", "absent")}

Responses == {[head |-> "200", get |-> "200"], [head |-> "exception", get |-> "exception"]}

FormatInputs ==
    UNION {[items : [1..n -> {HeadlineItem(t, "Reuters", l) : t \in FormatTitles, l \in FormatLinks}],
            responses : [1..n -> Responses]] : n \in 0..MaxHeadlines}

InitFormat ==
    /\ call \in {[fn |-> "_format_headlines", args |-> a, done |-> FALSE,
                  result |-> Formatted(<<>>)] : a \in FormatInputs}
    /\ InitIdle

\* a call _format_headlines(items)
CallFormatHeadlines ==
    /\ call.fn = "_format_headlines" /\ ~call.done
    /\ call' = [call EXCEPT !.done = TRUE,
                            !.result = _format_headlines(call.args.items,
                                                         call.args.responses)]
    /\ UNCHANGED <<cfgVars, clock, file, state, loaded, file0, pc, i, mh_result, trace,
                   resolved, notified, loads, saves, cycle>>

NextFormat == CallFormatHeadlines

SpecFormat == InitFormat /\ [][NextFormat]_vars

\* C16: a malformed headline item never aborts the alert: for every list of
\* items, an item with an empty link (first or later) or with a link whose
\* redirect cannot be resolved included, _format_headlines returns without
\* raising one entry per item, in order, so that run_once goes on to
\* notify_ntfy.
C16_FormatNeverAborts ==
    (call.fn = "_format_headlines" /\ call.done) =>
        /\ ~call.result.raised
        /\ Len(call.result.entries) = Len(call.args.items)
        /\ \A k \in DOMAIN call.args.items :
              /\ k \in DOMAIN call.result.entries
              /\ OccursIn(call.result.entries[k].title, call.args.items[k].title)
              /\ call.result.entries[k].orig = <<>> <=> call.args.items[k].link = EmptyUrl

====
